---- MODULE Spec2Model ----
(***************************************************************************)
(* Observation (de)structuring layer of rld (src/rld/model.py): the        *)
(* module-level functions pack_array, unpack_array, unpack_tensor and      *)
(* _packed_size, and RayModelWrapper.obs_space / RayModelWrapper.forward.  *)
(*                                                                         *)
(* Python objects are records tagged by `type`.  A numpy array or a torch  *)
(* tensor is its shape plus its row-major buffer, as in both libraries.    *)
(* A call either returns (status "ok") or raises (status = the exception). *)
(***************************************************************************)
EXTENDS Integers, Sequences, FiniteSets, TLC

\* ------------------------------------------------------------- bounds
MaxNodes == 4      \* nodes (spaces) of one space descriptor
MaxFlat == 4       \* elements of one flat block handed to unpack / forward
MaxBatch == 2      \* leading (batch) dimension of a rank-2 flat block

\* the key sequences of the Dict spaces, the element values and the Box shapes
KeySeqs == {<<"a">>, <<"b", "a">>}
Values == {1, 16777217}
Shapes == {<<1>>, <<1, 2>>}

VARIABLES model, op, args, result

vars == <<model, op, args, result>>

\* ------------------------------------------------------ python objects
None == [type |-> "NoneType"]

Str(s) == [type |-> "str", s |-> s]

PyInt(v) == [type |-> "int", v |-> v]

Box(shape) == [type |-> "Box", shape |-> shape]

\* gym.spaces.Dict: `spaces` is an OrderedDict, here the sequence of its
\* (name, space) items in declared order.
Dict(spaces) == [type |-> "Dict", spaces |-> spaces]

\* A space kind the layer does not support.
Discrete(n) == [type |-> "Discrete", n |-> n]

ndarray(shape, data) == [type |-> "ndarray", shape |-> shape, data |-> data]

Tensor(shape, data) == [type |-> "Tensor", shape |-> shape, data |-> data]

\* A plain dict or an OrderedDict: the sequence of its (key, value) items.
Mapping(type, items) == [type |-> type, items |-> items]

OrderedDict(items) == Mapping("OrderedDict", items)

isinstance(x, T) == x.type = T

Ok(v) == [status |-> "ok", val |-> v]

Raise(exc, arg) == [status |-> exc, val |-> arg]

\* ------------------------------------------------------------ helpers
Range(s) == {s[i] : i \in DOMAIN s}

Min(a, b) == IF a < b THEN a ELSE b

RECURSIVE Sum(_)
Sum(s) == IF s = <<>> THEN 0 ELSE Head(s) + Sum(Tail(s))

RECURSIVE Concat(_)
Concat(ss) == IF ss = <<>> THEN <<>> ELSE Head(ss) \o Concat(Tail(ss))

\* items(), values() and iteration (keys) of an OrderedDict
items(od) == od

values(od) == [i \in DOMAIN od |-> od[i][2]]

keys(od) == [i \in DOMAIN od |-> Str(od[i][1])]

\* obs[name]
getitem(obs, name) ==
    LET i == CHOOSE i \in DOMAIN obs.items : obs.items[i][1] = name
    IN obs.items[i][2]

\* A list comprehension whose element expression may raise: the first
\* exception in evaluation order leaves the comprehension, else the list.
Comprehension(rs) ==
    IF \E i \in DOMAIN rs : rs[i].status # "ok"
    THEN LET first == CHOOSE i \in DOMAIN rs :
                          /\ rs[i].status # "ok"
                          /\ \A j \in 1..(i - 1) : rs[j].status = "ok"
         IN rs[first]
    ELSE Ok([i \in DOMAIN rs |-> rs[i].val])

\* sary[st:end] of a sequence, 0-based, st and end non-negative
Slice(s, st, end) ==
    LET hi == Min(end, Len(s))
    IN IF st >= hi THEN <<>> ELSE SubSeq(s, st + 1, hi)

\* ------------------------------------------------------- numpy / torch
\* np.prod(shape); np.prod(()) is 1
RECURSIVE prod(_)
prod(shape) == IF shape = <<>> THEN 1 ELSE Head(shape) * prod(Tail(shape))

\* np.float32 keeps a 24-bit significand
MantissaBits == 24

RECURSIVE Pow2(_)
Pow2(n) == IF n = 0 THEN 1 ELSE 2 * Pow2(n - 1)

\* spacing of the float32 numbers around the magnitude a
RECURSIVE Ulp(_)
Ulp(a) == IF a < Pow2(MantissaBits) THEN 1 ELSE 2 * Ulp(a \div 2)

\* the cast of a number to np.float32: round to nearest, ties to even
float32(v) ==
    LET a == IF v < 0 THEN -v ELSE v
        u == Ulp(a)
        q == a \div u
        r == a % u
        up == (2 * r > u) \/ (2 * r = u /\ q % 2 = 1)
        m == (IF up THEN q + 1 ELSE q) * u
    IN IF v < 0 THEN -m ELSE m

\* np.asarray(obs, dtype=np.float32).flatten()
asarray_float32_flatten(obs) ==
    ndarray(<<Len(obs.data)>>, [i \in DOMAIN obs.data |-> float32(obs.data[i])])

\* np.concatenate(arrays) of rank-1 arrays; an empty list is a ValueError
concatenate(arrays) ==
    IF arrays = <<>>
    THEN Raise("ValueError", None)
    ELSE LET data == Concat([i \in DOMAIN arrays |-> arrays[i].data])
         IN Ok(ndarray(<<Len(data)>>, data))

\* np.asarray(obs).reshape(shape)
np_reshape(obs, shape) ==
    IF prod(shape) = Len(obs.data)
    THEN Ok(ndarray(shape, obs.data))
    ELSE Raise("ValueError", None)

\* np.cumsum(sizes)
cumsum(sizes) == [i \in DOMAIN sizes |-> Sum(SubSeq(sizes, 1, i))]

\* np.split(ary, indices) of a rank-1 array: the sections between the
\* division points [0] + indices + [Ntotal], each a Python slice
np_split(ary, indices) ==
    LET Ntotal == Len(ary.data)
        div_points == <<0>> \o indices \o <<Ntotal>>
    IN [i \in 1..(Len(indices) + 1) |->
           LET sub == Slice(ary.data, div_points[i], div_points[i + 1])
           IN ndarray(<<Len(sub)>>, sub)]

\* obs.reshape(shape) of a tensor
torch_reshape(obs, shape) ==
    IF prod(shape) = Len(obs.data)
    THEN Ok(Tensor(shape, obs.data))
    ELSE Raise("RuntimeError", None)

\* torch.split(obs, sizes) of a rank-1 tensor: the sizes must sum to its length
torch_split(obs, sizes) ==
    IF Sum(sizes) # Len(obs.data)
    THEN Raise("RuntimeError", None)
    ELSE LET ends == cumsum(sizes)
         IN Ok([i \in DOMAIN sizes |->
                   LET sub == Slice(obs.data, ends[i] - sizes[i], ends[i])
                   IN Tensor(<<Len(sub)>>, sub)])

\* obs[b] of a tensor of rank >= 1, b 0-based
tensor_index(obs, b) ==
    LET n == prod(Tail(obs.shape))
    IN Tensor(Tail(obs.shape), Slice(obs.data, b * n, (b + 1) * n))

\* torch.stack(elems, dim=0) of tensors of one shape
torch_stack(elems) ==
    Tensor(<<Len(elems)>> \o elems[1].shape,
           Concat([i \in DOMAIN elems |-> elems[i].data]))

\* ------------------------------------------------- src/rld/model.py
\* _packed_size: the Dict branch iterates `space.spaces`, an OrderedDict,
\* and so calls itself on the keys (str objects), not on the sub-spaces.
RECURSIVE _packed_size(_)
_packed_size(space) ==
    IF isinstance(space, "Box")
    THEN Ok(prod(space.shape))
    ELSE IF isinstance(space, "Dict")
    THEN LET it == keys(space.spaces)
             sizes == Comprehension([i \in DOMAIN it |-> _packed_size(it[i])])
         IN IF sizes.status = "ok" THEN Ok(Sum(sizes.val)) ELSE sizes
    ELSE Raise("SpaceNotSupported", space)

\* line 95: [pack_array(obs[name], s) for name, s in space.spaces.items()]
RECURSIVE pack_array(_, _)
\* packed_values as it would be with the children taken in the order of the
\* observation's own keys: for name, o in obs.items()
packed_values_obs_order(obs, space) ==
    LET it == obs.items
        sub(name) == (CHOOSE e \in Range(space.spaces) : e[1] = name)[2]
    IN Comprehension([i \in DOMAIN it |-> pack_array(it[i][2], sub(it[i][1]))])

packed_values(obs, space) ==
    LET it == items(space.spaces)
    IN Comprehension([i \in DOMAIN it |->
                         pack_array(getitem(obs, it[i][1]), it[i][2])])

pack_array(obs, space) ==
    IF isinstance(space, "Box")
    THEN Ok(asarray_float32_flatten(obs))
    ELSE IF isinstance(space, "Dict")
    THEN LET pv == packed_values(obs, space)
         IN IF pv.status = "ok" THEN concatenate(pv.val) ELSE pv
    ELSE Raise("SpaceNotSupported", space)

\* line 105 / line 128: [_packed_size(s) for s in space.spaces.values()]
child_sizes(space) ==
    LET vs == values(space.spaces)
    IN Comprehension([i \in DOMAIN vs |-> _packed_size(vs[i])])

\* the OrderedDict built from the (name, value) pairs that zip() pairs up
zip_items(unpacked, it) ==
    OrderedDict([i \in 1..Min(Len(unpacked), Len(it)) |->
                    <<it[i][1], unpacked[i]>>])

RECURSIVE unpack_array(_, _)
unpack_array(obs, space) ==
    IF isinstance(space, "Box")
    THEN np_reshape(obs, space.shape)
    ELSE IF isinstance(space, "Dict")
    THEN LET sizes == child_sizes(space)
         IN IF sizes.status # "ok"
            THEN sizes
            ELSE LET c == cumsum(sizes.val)
                     split_packed == np_split(obs, SubSeq(c, 1, Len(c) - 1))
                     it == items(space.spaces)
                     n == Min(Len(split_packed), Len(it))
                     split_unpacked ==
                         Comprehension([i \in 1..n |->
                             unpack_array(split_packed[i], it[i][2])])
                 IN IF split_unpacked.status = "ok"
                    THEN Ok(zip_items(split_unpacked.val, it))
                    ELSE split_unpacked
    ELSE Raise("SpaceNotSupported", space)

\* tree.map_structure(lambda *elems: torch.stack(elems, dim=0), *obs_list):
\* needs at least one structure; a mapping keeps the keys of the first one.
RECURSIVE _merge_unpacked_batch(_)
\* _merge_unpacked_batch as it would be with torch.cat in place of torch.stack:
\* the leaves are joined along their own first dimension
_merge_unpacked_batch_cat(obs_list) ==
    IF obs_list = <<>>
    THEN Raise("ValueError", None)
    ELSE IF isinstance(obs_list[1], "OrderedDict")
    THEN LET it == obs_list[1].items
         IN Ok(OrderedDict([i \in DOMAIN it |->
                  <<it[i][1],
                    _merge_unpacked_batch(
                        [b \in DOMAIN obs_list |->
                            getitem(obs_list[b], it[i][1])]).val>>]))
    ELSE LET s == obs_list[1].shape
         IN Ok(Tensor(<<Len(obs_list) * Head(s)>> \o Tail(s),
                      Concat([i \in DOMAIN obs_list |-> obs_list[i].data])))

_merge_unpacked_batch(obs_list) ==
    IF obs_list = <<>>
    THEN Raise("ValueError", None)
    ELSE IF isinstance(obs_list[1], "OrderedDict")
    THEN LET it == obs_list[1].items
         IN Ok(OrderedDict([i \in DOMAIN it |->
                  <<it[i][1],
                    _merge_unpacked_batch(
                        [b \in DOMAIN obs_list |->
                            getitem(obs_list[b], it[i][1])]).val>>]))
    ELSE Ok(torch_stack(obs_list))

RECURSIVE unpack_tensor(_, _)
_unpack_tensor_single(obs, space) ==
    IF isinstance(space, "Box")
    THEN torch_reshape(obs, space.shape)
    ELSE IF isinstance(space, "Dict")
    THEN LET sizes == child_sizes(space)
         IN IF sizes.status # "ok"
            THEN sizes
            ELSE LET split_packed == torch_split(obs, sizes.val)
                 IN IF split_packed.status # "ok"
                    THEN split_packed
                    ELSE LET it == items(space.spaces)
                             n == Min(Len(split_packed.val), Len(it))
                             split_unpacked ==
                                 Comprehension([i \in 1..n |->
                                     unpack_tensor(split_packed.val[i], it[i][2])])
                         IN IF split_unpacked.status = "ok"
                            THEN Ok(zip_items(split_unpacked.val, it))
                            ELSE split_unpacked
    ELSE Raise("SpaceNotSupported", space)

_unpack_tensor_batched(obs, space) ==
    LET batch_size == obs.shape[1]
        obs_list == Comprehension([b \in 1..batch_size |->
                        unpack_tensor(tensor_index(obs, b - 1), space)])
    IN IF obs_list.status = "ok"
       THEN _merge_unpacked_batch(obs_list.val)
       ELSE obs_list

unpack_tensor(obs, space) ==
    IF Len(obs.shape) > 1
    THEN _unpack_tensor_batched(obs, space)
    ELSE _unpack_tensor_single(obs, space)

\* obs_space as it would be without the preference for the original space
obs_space_declared(m) == m.obs_space

\* RayModelWrapper.obs_space: hasattr(self.model.obs_space, "original_space")
obs_space(m) ==
    IF "original_space" \in DOMAIN m.obs_space
    THEN m.obs_space.original_space
    ELSE m.obs_space

\* RayModelWrapper.forward: the bundle handed to self.model(input_dict, state,
\* seq_lens), or the exception that leaves forward before the call
forward(m, x) ==
    IF isinstance(obs_space(m), "Box")
    THEN LET u == unpack_tensor(x, obs_space(m))
         IN IF u.status = "ok"
            THEN Ok([obs |-> u.val, obs_flat |-> x,
                     state |-> None, seq_lens |-> None])
            ELSE u
    ELSE Ok([obs |-> x, obs_flat |-> x, state |-> None, seq_lens |-> None])

\* ------------------------------------------------------------- inputs
Seqs(V, n) == [1..n -> V]

Leaves == {Box(s) : s \in Shapes} \cup {Discrete(2), Dict(<<>>)}

\* the space descriptors of exactly k nodes
RECURSIVE Trees(_)
RECURSIVE ChildSeqs(_, _)
ChildSeqs(n, k) ==
    IF n = 0
    THEN IF k = 0 THEN {<<>>} ELSE {}
    ELSE UNION {{<<c>> \o cs : c \in Trees(j), cs \in ChildSeqs(n - 1, k - j)} :
                j \in 1..(k - n + 1)}

Trees(k) ==
    IF k = 1
    THEN Leaves
    ELSE UNION {{Dict([i \in DOMAIN ks |-> <<ks[i], cs[i]>>]) :
                    cs \in ChildSeqs(Len(ks), k - 1)} : ks \in KeySeqs}

Spaces == UNION {Trees(k) : k \in 1..MaxNodes}

\* the wrapped models: the declared observation space, with or without the
\* host framework's `original_space` attribute on it
Models ==
    {[obs_space |-> D] : D \in Spaces} \cup
    {[obs_space |-> [type |-> "Box", shape |-> <<1>>, original_space |-> D]] :
        D \in Spaces}

\* the structured observations matching a space; a mapping observation may
\* list its keys in any order
RECURSIVE ObsOf(_)
ObsOf(space) ==
    IF isinstance(space, "Box")
    THEN {ndarray(space.shape, d) : d \in Seqs(Values, prod(space.shape))}
    ELSE IF isinstance(space, "Dict")
    THEN LET it == space.spaces
             n == Len(it)
             vals == {v \in [1..n -> UNION {ObsOf(it[i][2]) : i \in 1..n}] :
                         \A i \in 1..n : v[i] \in ObsOf(it[i][2])}
         IN {Mapping("dict", [i \in 1..n |-> <<it[p[i]][1], v[p[i]]>>]) :
                v \in vals, p \in Permutations(1..n)}
    ELSE {PyInt(0)}

\* the rank-1 flat blocks, as arrays
FlatArrays ==
    UNION {{ndarray(<<n>>, d) : d \in Seqs(Values, n)} : n \in 0..MaxFlat}

\* the flat blocks as tensors, rank 1 or with a leading batch dimension
FlatTensors ==
    UNION {{Tensor(<<n>>, d) : d \in Seqs(Values, n)} : n \in 0..MaxFlat}
    \cup
    UNION {{Tensor(bn, d) : d \in Seqs(Values, bn[1] * bn[2])} :
              bn \in {bn \in (0..MaxBatch) \X (0..MaxFlat) :
                         bn[1] * bn[2] <= MaxFlat}}

\* ------------------------------------------------------ state machine
\* the state after RayModelWrapper(model)
Init ==
    /\ model \in Models
    /\ op = "idle"
    /\ args = <<>>
    /\ result = Ok(None)

ObsSpace ==
    /\ op = "idle"
    /\ op' = "obs_space"
    /\ args' = <<>>
    /\ result' = Ok(obs_space(model))
    /\ UNCHANGED model

PackedSize ==
    /\ op = "idle"
    /\ op' = "_packed_size"
    /\ args' = <<obs_space(model)>>
    /\ result' = _packed_size(obs_space(model))
    /\ UNCHANGED model

PackArray ==
    /\ op = "idle"
    /\ \E obs \in ObsOf(obs_space(model)) :
        /\ op' = "pack_array"
        /\ args' = <<obs, obs_space(model)>>
        /\ result' = pack_array(obs, obs_space(model))
        /\ UNCHANGED model

UnpackArray ==
    /\ op = "idle"
    /\ \E obs \in FlatArrays :
        /\ op' = "unpack_array"
        /\ args' = <<obs, obs_space(model)>>
        /\ result' = unpack_array(obs, obs_space(model))
        /\ UNCHANGED model

UnpackTensor ==
    /\ op = "idle"
    /\ \E obs \in FlatTensors :
        /\ op' = "unpack_tensor"
        /\ args' = <<obs, obs_space(model)>>
        /\ result' = unpack_tensor(obs, obs_space(model))
        /\ UNCHANGED model

Forward ==
    /\ op = "idle"
    /\ \E x \in FlatTensors :
        /\ op' = "forward"
        /\ args' = <<x>>
        /\ result' = forward(model, x)
        /\ UNCHANGED model

\* the call returns to the caller; its arguments and result are transient
Return ==
    /\ op # "idle"
    /\ op' = "idle"
    /\ args' = <<>>
    /\ result' = Ok(None)
    /\ UNCHANGED model

Next ==
    \/ ObsSpace
    \/ PackedSize
    \/ PackArray
    \/ UnpackArray
    \/ UnpackTensor
    \/ Forward
    \/ Return

Spec == Init /\ [][Next]_vars

\* ------------------------------------------- vocabulary of the claims
\* the space is built from Box and Dict only, at every depth
RECURSIVE Supported(_)
Supported(space) ==
    \/ isinstance(space, "Box")
    \/ /\ isinstance(space, "Dict")
       /\ \A i \in DOMAIN space.spaces : Supported(space.spaces[i][2])

\* the nodes of a space that are neither Box nor Dict
RECURSIVE UnsupportedNodes(_)
UnsupportedNodes(space) ==
    IF isinstance(space, "Box")
    THEN {}
    ELSE IF isinstance(space, "Dict")
    THEN UNION {UnsupportedNodes(space.spaces[i][2]) : i \in DOMAIN space.spaces}
    ELSE {space}

\* the element count of a supported space: the product of a Box's shape,
\* the sum of the element counts of a Dict's children
RECURSIVE ElemCount(_)
ElemCount(space) ==
    IF isinstance(space, "Box")
    THEN prod(space.shape)
    ELSE Sum([i \in DOMAIN space.spaces |-> ElemCount(space.spaces[i][2])])

\* where child i of a Dict space starts in the flat block
Offset(space, i) ==
    Sum([j \in 1..(i - 1) |-> ElemCount(space.spaces[j][2])])

\* a Dict space nested in a Dict space, with something in it
HasNestedDict(space) ==
    /\ isinstance(space, "Dict")
    /\ \E i \in DOMAIN space.spaces :
          /\ isinstance(space.spaces[i][2], "Dict")
          /\ space.spaces[i][2].spaces # <<>>

\* every Dict of the space has at least one child
RECURSIVE NoEmptyDict(_)
NoEmptyDict(space) ==
    isinstance(space, "Dict") =>
        /\ space.spaces # <<>>
        /\ \A i \in DOMAIN space.spaces : NoEmptyDict(space.spaces[i][2])

\* the names of a mapping, in its order
KeysOf(m) == [i \in DOMAIN m.items |-> m.items[i][1]]

\* two numbers equal within the relative tolerance 1e-5
Close(x, y) ==
    LET d == IF x < y THEN y - x ELSE x - y
        a == IF y < 0 THEN -y ELSE y
    IN d <= a \div 100000

\* a structured result equals a structured observation element-wise
RECURSIVE ObsClose(_, _)
ObsClose(u, o) ==
    IF o.type = "ndarray"
    THEN /\ u.type = "ndarray"
         /\ u.shape = o.shape
         /\ Len(u.data) = Len(o.data)
         /\ \A i \in DOMAIN o.data : Close(u.data[i], o.data[i])
    ELSE /\ u.type = "OrderedDict"
         /\ Range(KeysOf(u)) = Range(KeysOf(o))
         /\ Len(u.items) = Len(o.items)
         /\ \A i \in DOMAIN o.items :
               ObsClose(getitem(u, o.items[i][1]), o.items[i][2])

\* a structure with every leaf replaced by its b-th entry (b 0-based)
RECURSIVE TreeIndex(_, _)
TreeIndex(t, b) ==
    IF isinstance(t, "OrderedDict")
    THEN OrderedDict([i \in DOMAIN t.items |->
             <<t.items[i][1], TreeIndex(t.items[i][2], b)>>])
    ELSE tensor_index(t, b)

\* the leading dimensions of the leaves of a structure
RECURSIVE LeadingDims(_)
LeadingDims(t) ==
    IF isinstance(t, "OrderedDict")
    THEN UNION {LeadingDims(t.items[i][2]) : i \in DOMAIN t.items}
    ELSE {t.shape[1]}

\* the arguments of the call in progress
Obs == args[1]

Space == args[2]

\* the space argument of the call in progress (the last argument)
SpaceArg == args[Len(args)]

EngineOps == {"pack_array", "unpack_array", "unpack_tensor", "_packed_size"}

UnpackOps == {"unpack_array", "unpack_tensor"}

\* a flat block whose slices each hold the element count of the space
WellFormed(x, space) ==
    \/ Len(x.shape) = 1 /\ x.shape[1] = ElemCount(space)
    \/ Len(x.shape) = 2 /\ x.shape[1] >= 1 /\ x.shape[2] = ElemCount(space)

\* sub-block i of a flat block, by the element counts of the children
SubBlock(x, space, i) ==
    LET sub == Slice(x.data, Offset(space, i),
                     Offset(space, i) + ElemCount(space.spaces[i][2]))
    IN [type |-> x.type, shape |-> <<Len(sub)>>, data |-> sub]

\* ------------------------------------------------------------- claims

\* C1: round trip. For every space built from Box and Dict and every matching
\* observation, pack_array returns a flat block, unpack_array of that block
\* returns a result, and the result equals the observation element-wise
\* (within the float32 tolerance). Stated for the spaces whose Dicts all have
\* children.
C1_RoundTrip ==
    (op = "pack_array" /\ Supported(Space) /\ NoEmptyDict(Space)) =>
        /\ result.status = "ok"
        /\ LET u == unpack_array(result.val, Space)
           IN u.status = "ok" /\ ObsClose(u.val, Obs)

\* C2: element count. _packed_size returns the product of the shape of a Box
\* and the sum of the children's sizes of a Dict, and that number is the
\* length of the flat block pack_array returns for a matching observation.
C2_SizeIsElementCount ==
    /\ (op = "_packed_size" /\ Supported(SpaceArg)) =>
           result = Ok(ElemCount(SpaceArg))
    /\ (op = "pack_array" /\ Supported(Space) /\ result.status = "ok") =>
           _packed_size(Space) = Ok(Len(result.val.data))

\* C3: order preservation on pack. The flat block pack_array returns for a
\* Dict space is the packed children in declared order: child i occupies
\* [offset_i, offset_i + size_i) with offset_i the sum of the sizes before it,
\* the block has no other positions, and the key order of the observation
\* mapping does not matter.
C3_PackOrder ==
    (op = "pack_array" /\ isinstance(Space, "Dict") /\ result.status = "ok") =>
        /\ Len(result.val.data) = ElemCount(Space)
        /\ \A i \in DOMAIN Space.spaces :
              LET child == pack_array(getitem(Obs, Space.spaces[i][1]),
                                      Space.spaces[i][2])
              IN /\ child.status = "ok"
                 /\ SubBlock(result.val, Space, i) = child.val
        /\ \A p \in Permutations(DOMAIN Obs.items) :
              pack_array(Mapping("dict", [i \in DOMAIN Obs.items |->
                                             Obs.items[p[i]]]), Space) = result

\* C3 happens: a two-child Dict with a nested Dict is packed from an
\* observation that lists its keys in the other order, the children differing.
C3_Witness ==
    /\ op = "pack_array"
    /\ result.status = "ok"
    /\ HasNestedDict(Space)
    /\ Len(Space.spaces) = 2
    /\ KeysOf(Obs) # [i \in DOMAIN Space.spaces |-> Space.spaces[i][1]]
    /\ result.val.data[1] # result.val.data[Len(result.val.data)]

\* C4: unpack splitting. For a Dict space and a rank-1 flat block of the
\* space's element count, unpack_array and the unbatched unpack_tensor return
\* an ordered mapping whose keys are the declared names in declared order and
\* whose i-th value is the unpacked sub-block [offset_i, offset_i + size_i).
C4_UnpackSplits ==
    (/\ op \in UnpackOps
     /\ Len(Obs.shape) = 1
     /\ isinstance(Space, "Dict")
     /\ Supported(Space)
     /\ Len(Obs.data) = ElemCount(Space)) =>
        /\ result.status = "ok"
        /\ KeysOf(result.val) = [i \in DOMAIN Space.spaces |-> Space.spaces[i][1]]
        /\ \A i \in DOMAIN Space.spaces :
              LET r == IF op = "unpack_array"
                       THEN unpack_array(SubBlock(Obs, Space, i), Space.spaces[i][2])
                       ELSE unpack_tensor(SubBlock(Obs, Space, i), Space.spaces[i][2])
              IN r.status = "ok" /\ result.val.items[i][2] = r.val

\* C5: unsupported kind. pack_array, unpack_array, unpack_tensor and
\* _packed_size on a space that is or contains a kind other than Box and Dict
\* raise SpaceNotSupported carrying the unrecognized space. Stated for the
\* spaces whose Dicts all have children and for blocks of at least one slice.
C5_UnsupportedRaises ==
    (/\ op \in EngineOps
     /\ ~Supported(SpaceArg)
     /\ NoEmptyDict(SpaceArg)
     /\ op = "unpack_tensor" => Obs.shape[1] >= 1) =>
        /\ result.status = "SpaceNotSupported"
        /\ result.val \in UnsupportedNodes(SpaceArg)

\* C6: batch merge. unpack_tensor of a rank-1 block is the unbatched unpack;
\* of a rank-2 block of N >= 1 slices, each of which the unbatched unpack
\* accepts, it is a structure whose every leaf has leading dimension N and
\* whose b-th entry, leaf by leaf, is the unbatched unpack of slice b.
C6_BatchMerge ==
    op = "unpack_tensor" =>
        /\ Len(Obs.shape) = 1 => result = _unpack_tensor_single(Obs, Space)
        /\ (/\ Len(Obs.shape) = 2
            /\ Obs.shape[1] >= 1
            /\ \A b \in 1..Obs.shape[1] :
                  _unpack_tensor_single(tensor_index(Obs, b - 1), Space).status = "ok") =>
               /\ result.status = "ok"
               /\ LeadingDims(result.val) \subseteq {Obs.shape[1]}
               /\ \A b \in 1..Obs.shape[1] :
                     TreeIndex(result.val, b - 1) =
                         _unpack_tensor_single(tensor_index(Obs, b - 1), Space).val

\* C6 happens: two different slices are unpacked into a two-key mapping.
C6_Witness ==
    /\ op = "unpack_tensor"
    /\ Len(Obs.shape) = 2
    /\ Obs.shape[1] = 2
    /\ tensor_index(Obs, 0) # tensor_index(Obs, 1)
    /\ result.status = "ok"
    /\ isinstance(result.val, "OrderedDict")
    /\ Len(result.val.items) = 2

\* C7: forward dispatch. With well-formed input, forward hands the model a
\* bundle whose flat field is the given block, with no recurrent state and no
\* sequence lengths; its structured field holds the block itself when the
\* observation space is a Box and the unpacked block when it is a Dict.
\* Stated for the spaces whose Dicts all have children.
C7_ForwardDispatch ==
    (/\ op = "forward"
     /\ Supported(obs_space(model))
     /\ NoEmptyDict(obs_space(model))
     /\ WellFormed(args[1], obs_space(model))) =>
        LET x == args[1]
            u == unpack_tensor(x, obs_space(model))
        IN IF isinstance(obs_space(model), "Box")
           THEN /\ result.status = "ok"
                /\ result.val.obs.data = x.data
                /\ result.val.obs_flat = x
                /\ result.val.state = None
                /\ result.val.seq_lens = None
           ELSE result = IF u.status = "ok"
                         THEN Ok([obs |-> u.val, obs_flat |-> x,
                                  state |-> None, seq_lens |-> None])
                         ELSE u

\* C8: observation-space selection. Every call of obs_space returns the
\* wrapped model's original space when the model's space has one and the
\* model's declared space otherwise; the wrapped model never changes, so the
\* answer is the same on every call and it is the space pack and unpack get.
C8_ObsSpaceSelection ==
    [][LET preferred == IF "original_space" \in DOMAIN model.obs_space
                        THEN model.obs_space.original_space
                        ELSE model.obs_space
       IN /\ model' = model
          /\ op' = "obs_space" => result' = Ok(preferred)
          /\ op' \in EngineOps => args'[Len(args')] = preferred]_vars

\* C8 happens: obs_space has answered with a Dict original space carried by a
\* flattened Box.
C8_Witness ==
    /\ op = "obs_space"
    /\ "original_space" \in DOMAIN model.obs_space
    /\ isinstance(model.obs_space, "Box")
    /\ isinstance(result.val, "Dict")

\* C9: no spurious SpaceNotSupported. On a space built from Box and Dict only
\* and well-formed input, _packed_size, pack_array, unpack_array and
\* unpack_tensor never raise SpaceNotSupported.
C9_NoSpuriousNotSupported ==
    (/\ op \in EngineOps
     /\ Supported(SpaceArg)
     /\ op \in UnpackOps => WellFormed(Obs, Space)) =>
        result.status # "SpaceNotSupported"

\* C10: all-or-nothing on length. unpack_array and unpack_tensor of a rank-1
\* flat block whose length differs from the element count of a supported space
\* fail; they never return a structured observation.
C10_UnpackAllOrNothing ==
    (/\ op \in UnpackOps
     /\ Len(Obs.shape) = 1
     /\ Supported(Space)
     /\ Len(Obs.data) # ElemCount(Space)) =>
        result.status # "ok"

====
